---- MODULE Spec2Model ----
(***************************************************************************)
(* A model of the two packages of ronanzindev/compress:                    *)
(*   - package stream (src/stream/stream.go): a pipeline of goroutines     *)
(*     connected by unbuffered channels, built by NewStream and the stage  *)
(*     methods Filter, Map, FlatMap, Limit, Parallel and consumed by the   *)
(*     terminal methods Collect or Reduce;                                 *)
(*   - package compress (src/unnamed/part_000, src/compress.go): the       *)
(*     sequential wrapper Compress[T] over a slice.                        *)
(*                                                                         *)
(* An unbuffered channel is a rendezvous: a send and a receive on the same *)
(* channel complete together.  Every receive action below therefore picks  *)
(* a goroutine blocked in a send on its input channel, takes the offered   *)
(* element and moves both goroutines on.  An element carries the index of  *)
(* the source element it stems from (id) next to its value (val).          *)
(***************************************************************************)
EXTENDS Integers, Sequences, FiniteSets

\* ---------------------------------------------------------------- bounds
\* longest source of a pipeline of at most one stage, and of the wrapper
MaxLen == 3
\* longest source of a pipeline of two or more stages
MaxLenLong == 2
\* most stage methods chained on one stream
MaxStages == 2
\* most workers of a Parallel stage of a one-stage pipeline
MaxWorkers == 2
\* largest n of a Limit stage of a one-stage pipeline
MaxLimit == 1
\* most methods called on one Compress
MaxCalls == 1
\* most calls when only Pop and Shift are called
MaxPops == 4

\* ---------------------------------------------------------------- inputs
Values == {1, 2}

\* The zero value of T (T = int): var value T
Zero == 0

\* testData of the README's test: []int{1, ..., 10}
TestData == [i \in 1..10 |-> i]

Evens == {v \in 1..20 : v % 2 = 0}

\* the sources of the pipelines of at most one stage and of the wrapper
BoundedSeqs == UNION {[1..k -> Values] : k \in 0..MaxLen}

\* the sources of the longer pipelines
ShortSeqs == UNION {[1..k -> Values] : k \in 0..MaxLenLong}

Preds == (SUBSET Values) \cup {Evens}

MapFns == {"succ", "double"}

ExpandFns == {"pair", "evenTwice"}

ReduceFns == {"add", "sub"}

\* predicate(item): a predicate is given by the set of values it accepts
ApplyPred(P, v) == v \in P

\* predicate(item) of Map: the transform named f
ApplyMap(f, v) == IF f = "succ" THEN v + 1 ELSE 2 * v

\* transform(item) of FlatMap: the expansion named e
ApplyExpand(e, v) ==
    IF e = "pair" THEN <<v, v + 10>>
    ELSE IF v % 2 = 0 THEN <<v, v>> ELSE << >>

\* reduce(a, b): the combining function named f
ApplyReduce(f, a, b) == IF f = "add" THEN a + b ELSE a - b

\* ---------------------------------------------------------------- stages
NoPred == {}

FilterStage(P) == [op |-> "Filter", p |-> P, f |-> "", n |-> 0]
MapStage(f) == [op |-> "Map", p |-> NoPred, f |-> f, n |-> 0]
FlatMapStage(e) == [op |-> "FlatMap", p |-> NoPred, f |-> e, n |-> 0]
LimitStage(n) == [op |-> "Limit", p |-> NoPred, f |-> "", n |-> n]
ParallelStage(k) == [op |-> "Parallel", p |-> NoPred, f |-> "", n |-> k]

StageOptions ==
    {FilterStage(P) : P \in Preds}
      \cup {MapStage(f) : f \in MapFns}
      \cup {FlatMapStage(e) : e \in ExpandFns}
      \cup {LimitStage(n) : n \in -1..MaxLimit}
      \cup {ParallelStage(k) : k \in 0..MaxWorkers}

\* the stage methods the longer chains are built from
CoreStages ==
    {FilterStage(Evens), MapStage("succ"), FlatMapStage("evenTwice"),
     LimitStage(1), ParallelStage(2)}

\* no stage or one stage, with every argument
ShortChains == {<< >>} \cup {<<st>> : st \in StageOptions}

\* two to MaxStages stages
LongChains == UNION {[1..k -> CoreStages] : k \in 2..MaxStages}

CollectTerm == [op |-> "Collect", init |-> 0, f |-> ""]
ReduceTerm(i, f) == [op |-> "Reduce", init |-> i, f |-> f]
NoTerm == [op |-> "None", init |-> 0, f |-> ""]

Terminals ==
    {CollectTerm, NoTerm} \cup {ReduceTerm(i, f) : i \in {0, 5}, f \in ReduceFns}

\* the longer pipelines are collected or left without a terminal method
CoreTerminals == {CollectTerm, NoTerm}

VARIABLES
    pkg,        \* "stream" or "compress": which constructor built the object
    src,        \* the slice handed to NewStream / New
    chain,      \* the stage methods called on the stream, in order
    term,       \* the terminal method called on the last stream
    srcIdx,     \* NewStream's goroutine: index of the next element to send
    srcPc,      \* NewStream's goroutine: "send", "closing" or "done"
    pc,         \* pc[i][w]: worker w of stage i: "recv", "send", "closing", "done"
    hold,       \* hold[i][w]: the elements worker w of stage i still has to send
    count,      \* count[i]: Limit's local variable count
    wg,         \* wg[i]: Parallel's sync.WaitGroup counter
    coord,      \* coord[i]: Parallel's coordinator: "wait", "done" ("none" otherwise)
    closedBy,   \* closedBy[c]: the goroutines that called close on channel c, in order
    termPc,     \* the caller's goroutine inside Collect/Reduce: "recv" or "done"
    recvd,      \* the elements the terminal method received, in order
    acc,        \* Reduce's local variable result
    dropped,    \* dropped[id]: how often an element of source index id was discarded
    data,       \* Compress.data
    calls,      \* the methods called on the Compress, in order
    ret,        \* what the last Compress method returned (Pop, Shift, Reduce)
    panicked    \* a Compress method panicked (slice bounds out of range)

vars ==
    <<pkg, src, chain, term, srcIdx, srcPc, pc, hold, count, wg, coord, closedBy,
      termPc, recvd, acc, dropped, data, calls, ret, panicked>>

compressVars == <<data, calls, ret, panicked>>

\* ---------------------------------------------------------------- helpers
NStages == Len(chain)

\* the goroutines a stage method starts that range over s.data
Workers(i) == IF chain[i].op = "Parallel" THEN 1..chain[i].n ELSE {1}

\* channel c is the output of stage c; channel 0 is NewStream's ch
Channels == 0..NStages

Item(i, v) == [id |-> i, val |-> v]

ValsOf(items) == [k \in 1..Len(items) |-> items[k].val]

\* faulty variant: the range loop stops one element short
SourcePcAtSkipsLast(idx, s) == IF idx >= Len(s) THEN "closing" ELSE "send"

\* go func() of NewStream: nothing left to range over, the deferred close runs
SourcePcAt(idx, s) == IF idx > Len(s) THEN "closing" ELSE "send"

\* stage j exists and was built by the stage method op
IsStage(j, op) == pkg = "stream" /\ j \in 1..NStages /\ chain[j].op = op

\* stage j exists and is one of the single-goroutine stages
IsSerialStage(j) == pkg = "stream" /\ j \in 1..NStages /\ chain[j].op # "Parallel"

\* ---------------------------------------------------------------- Init
\* NewStream(data) followed by the stage methods of chain: every goroutine is
\* started and stands at its first receive (or send, for NewStream's).
StreamInit(s, ch, t) ==
    /\ pkg = "stream"
    /\ src = s
    /\ chain = ch
    /\ term = t
    /\ srcIdx = 1
    /\ srcPc = SourcePcAt(1, s)
    /\ pc = [i \in 1..Len(ch) |->
               [w \in (IF ch[i].op = "Parallel" THEN 1..ch[i].n ELSE {1}) |-> "recv"]]
    /\ hold = [i \in 1..Len(ch) |->
               [w \in (IF ch[i].op = "Parallel" THEN 1..ch[i].n ELSE {1}) |-> << >>]]
    /\ count = [i \in 1..Len(ch) |-> 0]
    /\ wg = [i \in 1..Len(ch) |-> IF ch[i].op = "Parallel" THEN ch[i].n ELSE 0]
    /\ coord = [i \in 1..Len(ch) |-> IF ch[i].op = "Parallel" THEN "wait" ELSE "none"]
    /\ closedBy = [c \in 0..Len(ch) |-> << >>]
    /\ termPc = "recv"
    /\ recvd = << >>
    /\ acc = t.init
    /\ dropped = [i \in 1..Len(s) |-> 0]
    /\ data = << >>
    /\ calls = << >>
    /\ ret = Zero
    /\ panicked = FALSE

\* New(data): the wrapper holds the slice; no goroutine exists
CompressInit(s) ==
    /\ pkg = "compress"
    /\ src = s
    /\ chain = << >>
    /\ term = NoTerm
    /\ srcIdx = 1
    /\ srcPc = "none"
    /\ pc = << >>
    /\ hold = << >>
    /\ count = << >>
    /\ wg = << >>
    /\ coord = << >>
    /\ closedBy = [c \in 0..0 |-> << >>]
    /\ termPc = "none"
    /\ recvd = << >>
    /\ acc = Zero
    /\ dropped = [i \in 1..Len(s) |-> 0]
    /\ data = s
    /\ calls = << >>
    /\ ret = Zero
    /\ panicked = FALSE

Init ==
    \/ \E s \in BoundedSeqs, ch \in ShortChains, t \in Terminals : StreamInit(s, ch, t)
    \/ \E s \in ShortSeqs, ch \in LongChains, t \in CoreTerminals : StreamInit(s, ch, t)
    \/ \E ch \in {<< >>} \cup {<<st>> : st \in CoreStages},
          t \in {CollectTerm, ReduceTerm(0, "add")} : StreamInit(TestData, ch, t)
    \/ \E s \in BoundedSeqs \cup {TestData} : CompressInit(s)

\* ---------------------------------------------------------------- channels
Closed(c) == Len(closedBy[c]) > 0

Closer(i, role) == [stage |-> i, role |-> role]

\* the goroutines that may stand in a send on channel c
SenderIds(c) == IF c = 0 THEN {1} ELSE Workers(c)

\* goroutine ws is blocked in "ch <- item" on channel c
CanSend(c, ws) == IF c = 0 THEN srcPc = "send" ELSE pc[c][ws] = "send"

\* the element that send offers
Offered(c, ws) == IF c = 0 THEN Item(srcIdx, src[srcIdx]) ELSE Head(hold[c][ws])

\* The sender's side of a completed send on channel c: the loop it is in goes on.
SentSrcIdx(c) == IF c = 0 THEN srcIdx + 1 ELSE srcIdx

SentSrcPc(c) == IF c = 0 THEN SourcePcAt(srcIdx + 1, src) ELSE srcPc

SentPc(c, ws) ==
    IF c = 0 THEN pc
    ELSE [pc EXCEPT ![c][ws] = IF Len(hold[c][ws]) > 1 THEN "send" ELSE "recv"]

\* faulty variant: the sender keeps the element it has sent
SentHoldKept(c, ws) == hold

SentHold(c, ws) == IF c = 0 THEN hold ELSE [hold EXCEPT ![c][ws] = Tail(@)]

\* Limit: count++ after ch <- item
SentCount(c) ==
    IF c > 0 /\ chain[c].op = "Limit" THEN [count EXCEPT ![c] = @ + 1] ELSE count

\* Worker w of stage j receives the element goroutine ws offers on channel j-1 and
\* goes to newPc holding newHold.
Handoff(j, w, ws, newPc, newHold) ==
    /\ srcIdx' = SentSrcIdx(j - 1)
    /\ srcPc' = SentSrcPc(j - 1)
    /\ pc' = [SentPc(j - 1, ws) EXCEPT ![j][w] = newPc]
    /\ hold' = [SentHold(j - 1, ws) EXCEPT ![j][w] = newHold]
    /\ count' = SentCount(j - 1)

\* faulty variant: the stage takes the next element while its send is pending
CanRecvWhileSending(j, w, ws) ==
    /\ pc[j][w] \in {"recv", "send"}
    /\ CanSend(j - 1, ws)

\* "for item := range s.data" of worker w of stage j can receive from ws
CanRecv(j, w, ws) ==
    /\ pc[j][w] = "recv"
    /\ CanSend(j - 1, ws)

\* "for item := range s.data" of worker w of stage j finds the channel closed
\* and empty: no goroutine is left that sends on it
SeesClosed(j, w) ==
    /\ pc[j][w] = "recv"
    /\ Closed(j - 1)

\* ---------------------------------------------------------------- NewStream
\* defer close(ch) of NewStream's goroutine
SourceClose ==
    /\ pkg = "stream"
    /\ srcPc = "closing"
    /\ srcPc' = "done"
    /\ closedBy' = [closedBy EXCEPT ![0] = Append(@, Closer(0, "source"))]
    /\ UNCHANGED <<pkg, src, chain, term, srcIdx, pc, hold, count, wg, coord,
                   termPc, recvd, acc, dropped>>
    /\ UNCHANGED compressVars

\* ---------------------------------------------------------------- Filter
\* faulty variant: the test of the predicate inverted
FilterKeepsInverted(P, v) == ~ApplyPred(P, v)

\* if predicate(item)
FilterKeeps(P, v) == ApplyPred(P, v)

FilterRecv(j) ==
    /\ IsStage(j, "Filter")
    /\ \E ws \in SenderIds(j - 1) :
        /\ CanRecv(j, 1, ws)
        /\ LET item == Offered(j - 1, ws) IN
           IF FilterKeeps(chain[j].p, item.val)
           THEN /\ Handoff(j, 1, ws, "send", <<item>>)
                /\ UNCHANGED dropped
           ELSE /\ Handoff(j, 1, ws, "recv", << >>)
                /\ dropped' = [dropped EXCEPT ![item.id] = @ + 1]
        /\ UNCHANGED <<pkg, src, chain, term, wg, coord, closedBy, termPc, recvd, acc>>
        /\ UNCHANGED compressVars

\* the range loop of a Filter, Map, FlatMap or Limit goroutine ends
StageInputClosed(j) ==
    /\ IsSerialStage(j)
    /\ SeesClosed(j, 1)
    /\ pc' = [pc EXCEPT ![j][1] = "closing"]
    /\ UNCHANGED <<pkg, src, chain, term, srcIdx, srcPc, hold, count, wg, coord,
                   closedBy, termPc, recvd, acc, dropped>>
    /\ UNCHANGED compressVars

\* faulty variant: the goroutine returns without closing its output channel
StageCloseForgotten(j) ==
    /\ IsSerialStage(j)
    /\ pc[j][1] = "closing"
    /\ pc' = [pc EXCEPT ![j][1] = "done"]
    /\ UNCHANGED <<pkg, src, chain, term, srcIdx, srcPc, hold, count, wg, coord,
                   closedBy, termPc, recvd, acc, dropped>>
    /\ UNCHANGED compressVars

\* defer close(ch) of a Filter, Map, FlatMap or Limit goroutine
StageClose(j) ==
    /\ IsSerialStage(j)
    /\ pc[j][1] = "closing"
    /\ pc' = [pc EXCEPT ![j][1] = "done"]
    /\ closedBy' = [closedBy EXCEPT ![j] = Append(@, Closer(j, "worker"))]
    /\ UNCHANGED <<pkg, src, chain, term, srcIdx, srcPc, hold, count, wg, coord,
                   termPc, recvd, acc, dropped>>
    /\ UNCHANGED compressVars

\* ---------------------------------------------------------------- Collect
\* result = append(result, item)
CollectRecv ==
    /\ pkg = "stream"
    /\ term.op = "Collect"
    /\ termPc = "recv"
    /\ \E ws \in SenderIds(NStages) :
        /\ CanSend(NStages, ws)
        /\ recvd' = Append(recvd, Offered(NStages, ws))
        /\ srcIdx' = SentSrcIdx(NStages)
        /\ srcPc' = SentSrcPc(NStages)
        /\ pc' = SentPc(NStages, ws)
        /\ hold' = SentHold(NStages, ws)
        /\ count' = SentCount(NStages)
        /\ UNCHANGED <<pkg, src, chain, term, wg, coord, closedBy, termPc, acc, dropped>>
        /\ UNCHANGED compressVars

\* the range loop of Collect ends: return result
CollectReturn ==
    /\ pkg = "stream"
    /\ term.op = "Collect"
    /\ termPc = "recv"
    /\ Closed(NStages)
    /\ termPc' = "done"
    /\ UNCHANGED <<pkg, src, chain, term, srcIdx, srcPc, pc, hold, count, wg, coord,
                   closedBy, recvd, acc, dropped>>
    /\ UNCHANGED compressVars

\* ---------------------------------------------------------------- Map
\* faulty variant: the element is forwarded as received (ch <- item)
MapResultUnchanged(f, item) == item

\* result := predicate(item)
MapResult(f, item) == Item(item.id, ApplyMap(f, item.val))

\* ch <- result
MapRecv(j) ==
    /\ IsStage(j, "Map")
    /\ \E ws \in SenderIds(j - 1) :
        /\ CanRecv(j, 1, ws)
        /\ Handoff(j, 1, ws, "send", <<MapResult(chain[j].f, Offered(j - 1, ws))>>)
        /\ UNCHANGED <<pkg, src, chain, term, wg, coord, closedBy, termPc, recvd, acc,
                       dropped>>
        /\ UNCHANGED compressVars

\* ---------------------------------------------------------------- FlatMap
\* faulty variant: the inner loop walks the transformed elements backwards
ExpansionReversed(e, item) ==
    [k \in 1..Len(ApplyExpand(e, item.val)) |->
        Item(item.id, ApplyExpand(e, item.val)[Len(ApplyExpand(e, item.val)) + 1 - k])]

\* faulty variant: the inner loop stops after the first transformed element
ExpansionFirstOnly(e, item) ==
    IF ApplyExpand(e, item.val) = << >> THEN << >>
    ELSE <<Item(item.id, ApplyExpand(e, item.val)[1])>>

\* for _, transformed := range transform(item): the elements still to send
Expansion(e, item) ==
    [k \in 1..Len(ApplyExpand(e, item.val)) |-> Item(item.id, ApplyExpand(e, item.val)[k])]

FlatMapRecv(j) ==
    /\ IsStage(j, "FlatMap")
    /\ \E ws \in SenderIds(j - 1) :
        /\ CanRecv(j, 1, ws)
        /\ LET out == Expansion(chain[j].f, Offered(j - 1, ws)) IN
           Handoff(j, 1, ws, IF out = << >> THEN "recv" ELSE "send", out)
        /\ UNCHANGED <<pkg, src, chain, term, wg, coord, closedBy, termPc, recvd, acc,
                       dropped>>
        /\ UNCHANGED compressVars

\* ---------------------------------------------------------------- Limit
\* faulty variant: the comparison off by one (count > n)
LimitReachedLate(cnt, n) == cnt > n

\* if count >= n { break }
LimitReached(cnt, n) == cnt >= n

\* faulty variant: past the limit the loop keeps draining its input and discards
\* the elements instead of breaking
LimitRecvDraining(j) ==
    /\ IsStage(j, "Limit")
    /\ \E ws \in SenderIds(j - 1) :
        /\ CanRecv(j, 1, ws)
        /\ LET item == Offered(j - 1, ws) IN
           IF LimitReached(count[j], chain[j].n)
           THEN /\ Handoff(j, 1, ws, "recv", << >>)
                /\ dropped' = [dropped EXCEPT ![item.id] = @ + 1]
           ELSE /\ Handoff(j, 1, ws, "send", <<item>>)
                /\ UNCHANGED dropped
        /\ UNCHANGED <<pkg, src, chain, term, wg, coord, closedBy, termPc, recvd, acc>>
        /\ UNCHANGED compressVars

\* for item := range s.data { if count >= n { break }; ch <- item; count++ }
LimitRecv(j) ==
    /\ IsStage(j, "Limit")
    /\ \E ws \in SenderIds(j - 1) :
        /\ CanRecv(j, 1, ws)
        /\ LET item == Offered(j - 1, ws) IN
           IF LimitReached(count[j], chain[j].n)
           THEN /\ Handoff(j, 1, ws, "closing", << >>)
                /\ dropped' = [dropped EXCEPT ![item.id] = @ + 1]
           ELSE /\ Handoff(j, 1, ws, "send", <<item>>)
                /\ UNCHANGED dropped
        /\ UNCHANGED <<pkg, src, chain, term, wg, coord, closedBy, termPc, recvd, acc>>
        /\ UNCHANGED compressVars

\* ---------------------------------------------------------------- Parallel
\* for item := range s.data { ch <- item } of worker w
ParallelRecv(j, w) ==
    /\ IsStage(j, "Parallel")
    /\ w \in Workers(j)
    /\ \E ws \in SenderIds(j - 1) :
        /\ CanRecv(j, w, ws)
        /\ Handoff(j, w, ws, "send", <<Offered(j - 1, ws)>>)
        /\ UNCHANGED <<pkg, src, chain, term, wg, coord, closedBy, termPc, recvd, acc,
                       dropped>>
        /\ UNCHANGED compressVars

\* the range loop of worker w ends
WorkerInputClosed(j, w) ==
    /\ IsStage(j, "Parallel")
    /\ w \in Workers(j)
    /\ SeesClosed(j, w)
    /\ pc' = [pc EXCEPT ![j][w] = "closing"]
    /\ UNCHANGED <<pkg, src, chain, term, srcIdx, srcPc, hold, count, wg, coord,
                   closedBy, termPc, recvd, acc, dropped>>
    /\ UNCHANGED compressVars

\* defer wg.Done() of worker w
WorkerDone(j, w) ==
    /\ IsStage(j, "Parallel")
    /\ w \in Workers(j)
    /\ pc[j][w] = "closing"
    /\ pc' = [pc EXCEPT ![j][w] = "done"]
    /\ wg' = [wg EXCEPT ![j] = @ - 1]
    /\ UNCHANGED <<pkg, src, chain, term, srcIdx, srcPc, hold, count, coord,
                   closedBy, termPc, recvd, acc, dropped>>
    /\ UNCHANGED compressVars

\* faulty variant: the coordinator does not wait for the workers
WaitSkipped(counter) == TRUE

\* faulty variant: the coordinator waits for one worker too few
WaitOffByOne(counter) == counter <= 1

\* faulty variant: the counter never reaches what the coordinator waits for
WaitNever(counter) == counter < 0

\* wg.Wait() returns once the counter is zero
WaitReturns(counter) == counter = 0

\* go func() { wg.Wait(); close(ch) }()
CoordClose(j) ==
    /\ IsStage(j, "Parallel")
    /\ coord[j] = "wait"
    /\ WaitReturns(wg[j])
    /\ coord' = [coord EXCEPT ![j] = "done"]
    /\ closedBy' = [closedBy EXCEPT ![j] = Append(@, Closer(j, "coord"))]
    /\ UNCHANGED <<pkg, src, chain, term, srcIdx, srcPc, pc, hold, count, wg,
                   termPc, recvd, acc, dropped>>
    /\ UNCHANGED compressVars

\* ---------------------------------------------------------------- Reduce
\* faulty variant: a left fold over the running result
ReduceStepFold(f, inital, result, item) == ApplyReduce(f, result, item)

\* result = reduce(inital, item)
ReduceStep(f, inital, result, item) == ApplyReduce(f, inital, item)

ReduceRecv ==
    /\ pkg = "stream"
    /\ term.op = "Reduce"
    /\ termPc = "recv"
    /\ \E ws \in SenderIds(NStages) :
        /\ CanSend(NStages, ws)
        /\ recvd' = Append(recvd, Offered(NStages, ws))
        /\ acc' = ReduceStep(term.f, term.init, acc, Offered(NStages, ws).val)
        /\ srcIdx' = SentSrcIdx(NStages)
        /\ srcPc' = SentSrcPc(NStages)
        /\ pc' = SentPc(NStages, ws)
        /\ hold' = SentHold(NStages, ws)
        /\ count' = SentCount(NStages)
        /\ UNCHANGED <<pkg, src, chain, term, wg, coord, closedBy, termPc, dropped>>
        /\ UNCHANGED compressVars

\* the range loop of Reduce ends: return result
ReduceReturn ==
    /\ pkg = "stream"
    /\ term.op = "Reduce"
    /\ termPc = "recv"
    /\ Closed(NStages)
    /\ termPc' = "done"
    /\ UNCHANGED <<pkg, src, chain, term, srcIdx, srcPc, pc, hold, count, wg, coord,
                   closedBy, recvd, acc, dropped>>
    /\ UNCHANGED compressVars

\* ================================================================ Compress
Call(op, P, f, n, m) == [op |-> op, p |-> P, f |-> f, n |-> n, m |-> m]

\* the start and end arguments tried for Range, the n tried for Limit
IndexArgs == -1..(MaxLen + 1)

\* a method may be called: the program has not panicked
CanCall == pkg = "compress" /\ ~panicked /\ Len(calls) < MaxCalls

\* Pop and Shift may go on for longer when nothing else was called
CanPop ==
    /\ pkg = "compress"
    /\ ~panicked
    /\ \/ Len(calls) < MaxCalls
       \/ Len(calls) < MaxPops /\ \A k \in 1..Len(calls) : calls[k].op \in {"Pop", "Shift"}

UnchangedStream ==
    UNCHANGED <<pkg, src, chain, term, srcIdx, srcPc, pc, hold, count, wg, coord,
                closedBy, termPc, recvd, acc, dropped>>

\* for _, elem := range c.data { if predicate(elem) { filteredData = append(...) } }
RECURSIVE FilterLoop(_, _, _, _)
FilterLoop(d, P, k, filteredData) ==
    IF k > Len(d) THEN filteredData
    ELSE FilterLoop(d, P, k + 1,
                    IF ApplyPred(P, d[k]) THEN Append(filteredData, d[k])
                    ELSE filteredData)

\* Compress.Filter
FilterData(d, P) == IF Len(d) = 0 THEN d ELSE FilterLoop(d, P, 1, << >>)

CompressFilter(P) ==
    /\ CanCall
    /\ data' = FilterData(data, P)
    /\ calls' = Append(calls, Call("Filter", P, "", 0, 0))
    /\ UNCHANGED <<ret, panicked>>
    /\ UnchangedStream

\* Compress.Map: c.data[i] = predicate(elem)
MapData(d, f) == [k \in 1..Len(d) |-> ApplyMap(f, d[k])]

CompressMap(f) ==
    /\ CanCall
    /\ data' = MapData(data, f)
    /\ calls' = Append(calls, Call("Map", NoPred, f, 0, 0))
    /\ UNCHANGED <<ret, panicked>>
    /\ UnchangedStream

\* for _, item := range c.data { for ... { c.data = append(c.data, transfomed) } }:
\* the range expression is evaluated once, so the loop runs over the slice as it
\* was and every transformed element is appended behind it
RECURSIVE FlatMapLoop(_, _, _, _)
FlatMapLoop(d, e, k, cdata) ==
    IF k > Len(d) THEN cdata
    ELSE FlatMapLoop(d, e, k + 1, cdata \o ApplyExpand(e, d[k]))

\* Compress.FlatMap
FlatMapData(d, e) == IF Len(d) = 0 THEN d ELSE FlatMapLoop(d, e, 1, d)

CompressFlatMap(e) ==
    /\ CanCall
    /\ data' = FlatMapData(data, e)
    /\ calls' = Append(calls, Call("FlatMap", NoPred, e, 0, 0))
    /\ UNCHANGED <<ret, panicked>>
    /\ UnchangedStream

\* Compress.Pop
CompressPop ==
    /\ CanPop
    /\ IF Len(data) = 0
       THEN ret' = Zero /\ data' = data
       ELSE ret' = data[Len(data)] /\ data' = SubSeq(data, 1, Len(data) - 1)
    /\ calls' = Append(calls, Call("Pop", NoPred, "", 0, 0))
    /\ UNCHANGED panicked
    /\ UnchangedStream

\* faulty variant: Shift returns the first element but slices off the last
CompressShiftDropsLast ==
    /\ CanPop
    /\ IF Len(data) = 0
       THEN ret' = Zero /\ data' = data
       ELSE ret' = data[1] /\ data' = SubSeq(data, 1, Len(data) - 1)
    /\ calls' = Append(calls, Call("Shift", NoPred, "", 0, 0))
    /\ UNCHANGED panicked
    /\ UnchangedStream

\* Compress.Shift
CompressShift ==
    /\ CanPop
    /\ IF Len(data) = 0
       THEN ret' = Zero /\ data' = data
       ELSE ret' = data[1] /\ data' = SubSeq(data, 2, Len(data))
    /\ calls' = Append(calls, Call("Shift", NoPred, "", 0, 0))
    /\ UNCHANGED panicked
    /\ UnchangedStream

\* Compress.Range: the three clamps, in the order of the code
RangeStart(d, start, end) ==
    LET s1 == IF start < 0 THEN 0 ELSE start
        e1 == IF end > Len(d) THEN Len(d) ELSE end
    IN  IF s1 > e1 THEN e1 ELSE s1

RangeEnd(d, end) == IF end > Len(d) THEN Len(d) ELSE end

\* c.data[start:end] panics unless 0 <= start <= end <= cap(c.data)
SliceInBounds(d, lo, hi) == 0 <= lo /\ lo <= hi /\ hi <= Len(d)

CompressRange(start, end) ==
    /\ CanCall
    /\ calls' = Append(calls, Call("Range", NoPred, "", start, end))
    /\ IF Len(data) = 0
       THEN UNCHANGED <<data, panicked>>
       ELSE LET lo == RangeStart(data, start, end)
                hi == RangeEnd(data, end)
            IN  IF SliceInBounds(data, lo, hi)
                THEN data' = SubSeq(data, lo + 1, hi) /\ UNCHANGED panicked
                ELSE panicked' = TRUE /\ UNCHANGED data
    /\ UNCHANGED ret
    /\ UnchangedStream

\* for _, item := range c.data { result = reducer(result, item) }
RECURSIVE CompressReduceLoop(_, _, _, _)
CompressReduceLoop(d, f, k, result) ==
    IF k > Len(d) THEN result
    ELSE CompressReduceLoop(d, f, k + 1, ApplyReduce(f, result, d[k]))

\* faulty variant: every step combines with the initial value, as the stream's Reduce does
ReduceDataFromInitial(d, inital, f) ==
    IF d = << >> THEN inital ELSE ApplyReduce(f, inital, d[Len(d)])

\* Compress.Reduce
ReduceData(d, inital, f) == CompressReduceLoop(d, f, 1, inital)

CompressReduce(inital, f) ==
    /\ CanCall
    /\ ret' = ReduceData(data, inital, f)
    /\ calls' = Append(calls, Call("Reduce", NoPred, f, inital, 0))
    /\ UNCHANGED <<data, panicked>>
    /\ UnchangedStream

\* result := make([]T, len(c.data)): len(c.data) zero values
MakeResult(d) == [k \in 1..Len(d) |-> Zero]

\* for _, item := range c.data { if count >= n { break }; result = append(result, item) }
RECURSIVE CompressLimitLoop(_, _, _, _)
CompressLimitLoop(d, n, cnt, result) ==
    IF cnt >= Len(d) \/ cnt >= n THEN result
    ELSE CompressLimitLoop(d, n, cnt + 1, Append(result, d[cnt + 1]))

\* Compress.Limit: the data of the Compress it returns
LimitData(d, n) == IF Len(d) = 0 THEN d ELSE CompressLimitLoop(d, n, 0, MakeResult(d))

CompressLimit(n) ==
    /\ CanCall
    /\ data' = LimitData(data, n)
    /\ calls' = Append(calls, Call("Limit", NoPred, "", n, 0))
    /\ UNCHANGED <<ret, panicked>>
    /\ UnchangedStream

\* ---------------------------------------------------------------- Next
Next ==
    \/ SourceClose
    \/ \E j \in 1..MaxStages : FilterRecv(j)
    \/ \E j \in 1..MaxStages : MapRecv(j)
    \/ \E j \in 1..MaxStages : FlatMapRecv(j)
    \/ \E j \in 1..MaxStages : LimitRecv(j)
    \/ \E j \in 1..MaxStages, w \in 1..MaxWorkers : ParallelRecv(j, w)
    \/ \E j \in 1..MaxStages, w \in 1..MaxWorkers : WorkerInputClosed(j, w)
    \/ \E j \in 1..MaxStages, w \in 1..MaxWorkers : WorkerDone(j, w)
    \/ \E j \in 1..MaxStages : CoordClose(j)
    \/ \E j \in 1..MaxStages : StageInputClosed(j)
    \/ \E j \in 1..MaxStages : StageClose(j)
    \/ CollectRecv
    \/ CollectReturn
    \/ ReduceRecv
    \/ ReduceReturn
    \/ \E P \in Preds : CompressFilter(P)
    \/ \E f \in MapFns : CompressMap(f)
    \/ \E e \in ExpandFns : CompressFlatMap(e)
    \/ CompressPop
    \/ CompressShift
    \/ \E start \in IndexArgs, end \in IndexArgs : CompressRange(start, end)
    \/ \E i \in {0, 5}, f \in ReduceFns : CompressReduce(i, f)
    \/ \E n \in IndexArgs : CompressLimit(n)

Spec == Init /\ [][Next]_vars

\* The Go scheduler runs a runnable goroutine: as long as some goroutine can take
\* a step, a step is taken.
FairSpec == Spec /\ WF_vars(Next)

\* ================================================================ properties
\* Operators the properties are stated with.  They describe sequences as a
\* whole and are independent of the loops above.
Min(a, b) == IF a <= b THEN a ELSE b

IsPrefix(s, t) == Len(s) <= Len(t) /\ \A k \in 1..Len(s) : s[k] = t[k]

\* the k-th smallest element of the set of indices I
KthIndex(I, k) == CHOOSE i \in I : Cardinality({j \in I : j <= i}) = k

\* the sub-sequence of s at the indices I, in original order
SubSeqAt(s, I) == [k \in 1..Cardinality(I) |-> s[KthIndex(I, k)]]

\* the sub-sequence of s whose elements satisfy P, in original order
Satisfying(s, P) == SubSeqAt(s, {i \in 1..Len(s) : s[i] \in P})

\* the first min(n, len) elements of s, nothing for n <= 0
FirstN(s, n) == SubSeq(s, 1, IF n <= 0 THEN 0 ELSE Min(n, Len(s)))

\* how often v occurs in s
Occurrences(s, v) == Cardinality({k \in 1..Len(s) : s[k] = v})

\* f(...f(f(i, s[1]), s[2])..., s[Len(s)]), unfolded from the last element
RECURSIVE FoldLeft(_, _, _)
FoldLeft(f, i, s) ==
    IF s = << >> THEN i
    ELSE ApplyReduce(f, FoldLeft(f, i, SubSeq(s, 1, Len(s) - 1)), s[Len(s)])

\* what Collect returns
Collected == ValsOf(recvd)

\* the pipeline is NewStream(src).<op>(...) finalized by term
OneStage(op, t) ==
    pkg = "stream" /\ NStages = 1 /\ chain[1].op = op /\ term.op = t

\* the terminal method has returned
Returned == pkg = "stream" /\ termPc = "done"

\* the wrapper is New(src).<op>(...)
OneCall(op) == pkg = "compress" /\ Len(calls) = 1 /\ calls[1].op = op /\ ~panicked

\* C1: NewStream(S).Filter(P).Collect() returns, under every interleaving, the
\* sub-sequence of S whose elements satisfy P, in original order (and collects a
\* prefix of it until then); New(S).Filter(P).Collect() returns the same.
C1_FilterCollect ==
    /\ OneStage("Filter", "Collect") =>
          /\ IsPrefix(Collected, Satisfying(src, chain[1].p))
          /\ Returned => Collected = Satisfying(src, chain[1].p)
    /\ OneCall("Filter") => data = Satisfying(src, calls[1].p)

\* The README's test: filtering the even numbers of 1..10 has returned [2,4,6,8,10].
C1_Witness ==
    /\ OneStage("Filter", "Collect")
    /\ Returned
    /\ src = TestData
    /\ chain[1].p = Evens
    /\ Collected = <<2, 4, 6, 8, 10>>

\* C2: NewStream(S).Limit(n).Collect() returns, under every interleaving, the
\* first min(n, len(S)) elements of S for n >= 0 and the empty sequence for n <= 0.
C2_LimitCollect ==
    OneStage("Limit", "Collect") =>
        /\ IsPrefix(Collected, FirstN(src, chain[1].n))
        /\ Returned =>
              /\ Collected = FirstN(src, chain[1].n)
              /\ chain[1].n >= 0 => Len(Collected) = Min(chain[1].n, Len(src))
              /\ chain[1].n <= 0 => Collected = << >>

\* Limit(1) over three elements has returned the first one.
C2_Witness ==
    /\ OneStage("Limit", "Collect")
    /\ Returned
    /\ chain[1].n = 1
    /\ Len(src) = 3
    /\ Collected = <<src[1]>>

\* C3: NewStream(S).Parallel(K).Collect() with K >= 1 returns, under every
\* interleaving of the workers, a permutation of S: every source element once,
\* hence the same length and the same multiset of values; for K = 1 it is S.
C3_ParallelCollect ==
    (OneStage("Parallel", "Collect") /\ chain[1].n >= 1 /\ Returned) =>
        /\ Len(recvd) = Len(src)
        /\ \A i \in 1..Len(src) :
              Cardinality({k \in 1..Len(recvd) : recvd[k] = Item(i, src[i])}) = 1
        /\ \A v \in Values : Occurrences(Collected, v) = Occurrences(src, v)
        /\ chain[1].n = 1 => Collected = src

\* Two workers have delivered three elements in another order than the source's.
C3_Witness ==
    /\ OneStage("Parallel", "Collect")
    /\ Returned
    /\ chain[1].n = 2
    /\ Len(src) = 3
    /\ Collected # src

\* C4: New(S).Reduce(i, f) is the left fold f(...f(f(i, S[0]), S[1])..., S[len-1]),
\* which is i for the empty S; for S = 1..10, i = 0 and f = + it is 55.
C4_CompressReduce ==
    (pkg = "compress" /\ calls # << >> /\ calls[Len(calls)].op = "Reduce") =>
        LET c == calls[Len(calls)] IN
        /\ ret = FoldLeft(c.f, c.n, data)
        /\ Len(calls) = 1 => data = src
        /\ data = << >> => ret = c.n
        /\ (Len(calls) = 1 /\ src = TestData /\ c.f = "add" /\ c.n = 0) => ret = 55

\* The README's test: the sum of 1..10 is 55.
C4_Witness ==
    /\ OneCall("Reduce")
    /\ src = TestData
    /\ calls[1].f = "add"
    /\ calls[1].n = 0
    /\ ret = 55

\* C5: the stream's Reduce drains its channel to completion and returns
\* combine(initial, last element received), initial if it received nothing: not
\* a left fold.  For the source 1..10, initial 0 and combine = + it returns 10.
C5_StreamReduce ==
    (pkg = "stream" /\ term.op = "Reduce") =>
        /\ acc = IF recvd = << >> THEN term.init
                 ELSE ApplyReduce(term.f, term.init, recvd[Len(recvd)].val)
        /\ Returned => Closed(NStages) /\ \A ws \in SenderIds(NStages) : ~CanSend(NStages, ws)
        /\ (Returned /\ NStages = 0) => Collected = src
        /\ (Returned /\ NStages = 0 /\ src = TestData /\ term.f = "add" /\ term.init = 0)
              => acc = 10

\* Reduce(0, +) over NewStream(1..10) has received all ten elements and returned 10.
C5_Witness ==
    /\ Returned
    /\ term.op = "Reduce"
    /\ NStages = 0
    /\ src = TestData
    /\ Len(recvd) = 10
    /\ acc = 10
    /\ acc # FoldLeft("add", 0, src)

\* every stage of the pipeline was built by one of the methods in ops
OnlyStages(ops) == pkg = "stream" /\ \A i \in 1..NStages : chain[i].op \in ops

\* the places <<stage, worker, position>> where a goroutine holds an element
HeldAt ==
    UNION {UNION {{<<i, w, k>> : k \in 1..Len(hold[i][w])} : w \in Workers(i)} :
             i \in 1..NStages}

\* the number of goroutines holding the source element id
Held(id) == Cardinality({t \in HeldAt : hold[t[1]][t[2]][t[3]].id = id})

\* how often the source element id was delivered to the terminal method
Delivered(id) == Cardinality({k \in 1..Len(recvd) : recvd[k].id = id})

\* 1 if NewStream's goroutine has not sent the source element id yet
Unsent(id) == IF id >= srcIdx THEN 1 ELSE 0

\* C6: conservation of elements.  In every reachable state of a pipeline built
\* from Filter, Map, Limit and Parallel stages, each source element is in exactly
\* one place: not yet sent, held by exactly one goroutine, delivered to the
\* terminal method, or discarded by a Filter or a Limit; without a Filter and a
\* Limit nothing is discarded.
C6_Conservation ==
    OnlyStages({"Filter", "Map", "Limit", "Parallel"}) =>
        /\ \A id \in 1..Len(src) :
              Unsent(id) + Held(id) + Delivered(id) + dropped[id] = 1
        /\ OnlyStages({"Map", "Parallel"}) => \A id \in 1..Len(src) : dropped[id] = 0

\* Two Parallel stages in a row: one element is delivered while a worker of the
\* second stage holds the other.
C6_Witness ==
    /\ pkg = "stream"
    /\ NStages = 2
    /\ chain[1].op = "Parallel"
    /\ chain[2].op = "Parallel"
    /\ Len(src) = 2
    /\ Delivered(2) = 1
    /\ \E w \in Workers(2) : hold[2][w] = <<Item(1, src[1])>>

\* E(s[1]) \o E(s[2]) \o ... for the expansion named e
RECURSIVE ConcatExpand(_, _)
ConcatExpand(e, s) ==
    IF s = << >> THEN << >> ELSE ApplyExpand(e, Head(s)) \o ConcatExpand(e, Tail(s))

\* one stage method applied to a sequence as a whole
SeqStage(st, s) ==
    CASE st.op = "Filter" -> Satisfying(s, st.p)
      [] st.op = "Map" -> [k \in 1..Len(s) |-> ApplyMap(st.f, s[k])]
      [] st.op = "FlatMap" -> ConcatExpand(st.f, s)
      [] st.op = "Limit" -> FirstN(s, st.n)

\* the stage methods of ch applied one after another to s as a whole
RECURSIVE Sequential(_, _)
Sequential(ch, s) ==
    IF ch = << >> THEN s ELSE Sequential(Tail(ch), SeqStage(Head(ch), s))

\* C7: for a chain of Filter, Map, FlatMap and Limit stages, Collect returns under
\* every interleaving the result of applying the same operations one after
\* another to S as a whole (and has collected a prefix of it until then).
C7_OrderPreserved ==
    (OnlyStages({"Filter", "Map", "FlatMap", "Limit"}) /\ term.op = "Collect") =>
        /\ IsPrefix(Collected, Sequential(chain, src))
        /\ Returned => Collected = Sequential(chain, src)

\* Map(succ) then FlatMap(evenTwice) over [1, 1] has returned [2, 2, 2, 2].
C7_Witness ==
    /\ Returned
    /\ term.op = "Collect"
    /\ NStages = 2
    /\ chain[1].op = "Map"
    /\ chain[2].op = "FlatMap"
    /\ src = <<1, 1>>
    /\ Collected = <<2, 2, 2, 2>>

\* C8: NewStream(S).Map(F).Collect() returns, under every interleaving, a sequence
\* of the length of S whose element i is F(S[i]).
C8_MapCollect ==
    OneStage("Map", "Collect") =>
        /\ Len(Collected) <= Len(src)
        /\ \A i \in 1..Len(Collected) : Collected[i] = ApplyMap(chain[1].f, src[i])
        /\ Returned => Len(Collected) = Len(src)

\* Map(double) over three elements has returned.
C8_Witness ==
    /\ OneStage("Map", "Collect")
    /\ Returned
    /\ chain[1].f = "double"
    /\ Len(src) = 3
    /\ Collected = <<2 * src[1], 2 * src[2], 2 * src[3]>>

\* an index clamped into [0, len]
Clamp(x, len) == IF x < 0 THEN 0 ELSE IF x > len THEN len ELSE x

\* C9: New(S).Range(start, end) never fails, whatever the integers start and end:
\* the wrapper then holds the elements from the clamped start up to but
\* excluding the clamped end, and the empty sequence whenever start >= end.
C9_RangeNeverFails ==
    (pkg = "compress" /\ Len(calls) = 1 /\ calls[1].op = "Range") =>
        /\ ~panicked
        /\ data = SubSeq(src, Clamp(calls[1].n, Len(src)) + 1, Clamp(calls[1].m, Len(src)))
        /\ calls[1].n >= calls[1].m => data = << >>

\* the goroutine that is to close channel c
Producer(c) ==
    IF c = 0 THEN Closer(0, "source")
    ELSE IF chain[c].op = "Parallel" THEN Closer(c, "coord") ELSE Closer(c, "worker")

\* C10: channel close protocol.  Every channel is closed at most once and only by
\* its producing side; once it is closed no goroutine stands in a send on it and
\* every goroutine that sends on it has finished, holding nothing; the output of
\* a Parallel stage is closed by the coordinator only after the WaitGroup counter
\* reached zero, every worker (if there is one) having seen the input closed.
C10_CloseProtocol ==
    pkg = "stream" =>
        \A c \in Channels :
            /\ Len(closedBy[c]) <= 1
            /\ \A k \in 1..Len(closedBy[c]) : closedBy[c][k] = Producer(c)
            /\ Closed(c) =>
                  /\ \A ws \in SenderIds(c) : ~CanSend(c, ws)
                  /\ c = 0 => srcPc = "done"
                  /\ c >= 1 =>
                        \A w \in Workers(c) : pc[c][w] = "done" /\ hold[c][w] = << >>
                  /\ (c >= 1 /\ chain[c].op = "Parallel") =>
                        /\ wg[c] = 0 /\ coord[c] = "done"
                        /\ Workers(c) # {} => Closed(c - 1)

\* Parallel(2) has forwarded three elements and its coordinator has closed the
\* output channel.
C10_Witness ==
    /\ OneStage("Parallel", "Collect")
    /\ chain[1].n = 2
    /\ Len(recvd) = 3
    /\ closedBy[1] = <<Closer(1, "coord")>>

\* every goroutine of the pipeline has terminated and the terminal method returned
AllTerminated ==
    /\ srcPc = "done"
    /\ \A i \in 1..NStages : \A w \in Workers(i) : pc[i][w] = "done"
    /\ \A i \in 1..NStages : chain[i].op = "Parallel" => coord[i] = "done"
    /\ termPc = "done"

\* a chain of Filter, Map, FlatMap and Parallel(K >= 1) stages finalized by
\* Collect or Reduce
Drained ==
    /\ OnlyStages({"Filter", "Map", "FlatMap", "Parallel"})
    /\ \A i \in 1..NStages : chain[i].op = "Parallel" => chain[i].n >= 1
    /\ term.op \in {"Collect", "Reduce"}

\* C11: termination without leaks.  For a chain of Filter, Map, FlatMap and
\* Parallel(K >= 1) stages finalized by Collect or Reduce, under fair scheduling
\* the terminal call eventually returns and every goroutine eventually
\* terminates; until then some goroutine can always take a step (no deadlock).
C11_Termination ==
    /\ [](Drained => (AllTerminated \/ ENABLED Next))
    /\ Drained ~> AllTerminated

\* FlatMap then Parallel: every goroutine has terminated after Collect returned
\* four elements.
C11_Witness ==
    /\ Drained
    /\ NStages = 2
    /\ chain[1].op = "FlatMap"
    /\ chain[2].op = "Parallel"
    /\ AllTerminated
    /\ Len(recvd) = 4

\* NewStream(src).Limit(n).Collect() with n >= 0 and len(src) > n, after Limit
\* has closed its output
LimitClosedEarly ==
    /\ OneStage("Limit", "Collect")
    /\ chain[1].n >= 0
    /\ Len(src) > chain[1].n
    /\ Closed(1)

\* C12 as stated: with n >= 0 and len(S) > n, once Limit has closed its output
\* the source producer has not terminated and its channel is not closed.
C12_SourceNeverTerminates ==
    LimitClosedEarly => (srcPc # "done" /\ ~Closed(0))

\* C12 amended: with n >= 0 and len(S) > n + 1, once Limit has forwarded n
\* elements and closed its output, the source producer stays blocked on the send
\* of element n + 2 and never closes its channel, also after Collect returned.
C12_SourceBlockedBeyond ==
    (LimitClosedEarly /\ Len(src) > chain[1].n + 1) =>
        /\ srcPc = "send"
        /\ srcIdx = chain[1].n + 2
        /\ ~Closed(0)
        /\ count[1] = chain[1].n

\* Limit(1) over three elements: Collect has returned one element and the source
\* is still blocked on its third send.
C12_Witness ==
    /\ LimitClosedEarly
    /\ chain[1].n = 1
    /\ Len(src) = 3
    /\ Returned
    /\ Len(recvd) = 1
    /\ srcPc = "send"
    /\ srcIdx = 3

\* a pipeline over a non-empty source on which no terminal method is called
NoConsumer == pkg = "stream" /\ term.op = "None" /\ src # << >>

\* no goroutine has terminated (or is about to) and no channel is closed
NothingTerminated ==
    /\ srcPc = "send"
    /\ \A i \in 1..NStages : \A w \in Workers(i) : pc[i][w] \in {"recv", "send"}
    /\ \A i \in 1..NStages : coord[i] # "done"
    /\ \A c \in Channels : ~Closed(c)

RECURSIVE StageGoroutines(_)
\* the number of worker goroutines of stages 1..k
StageGoroutines(k) ==
    IF k = 0 THEN 0 ELSE StageGoroutines(k - 1) + Cardinality(Workers(k))

\* every element the source has sent is still held by a stage goroutine: no
\* Filter rejected one, no FlatMap expanded one to nothing, no Limit broke on one
NoneDiscarded == \A id \in 1..(srcIdx - 1) : Held(id) >= 1

\* every goroutine of every stage after stage i is blocked on its send
DownstreamBlocked(i) ==
    \A k \in (i + 1)..NStages : \A w \in Workers(k) : pc[k][w] = "send"

\* a goroutine blocked on its send, with every stage downstream blocked, stays so
StaysBlocked ==
    /\ (srcPc = "send" /\ DownstreamBlocked(0)) =>
           (srcPc' = "send" /\ srcIdx' = srcIdx)
    /\ \A i \in 1..NStages : \A w \in Workers(i) :
           (pc[i][w] = "send" /\ DownstreamBlocked(i)) =>
               (pc'[i][w] = "send" /\ hold'[i][w] = hold[i][w])

\* C13 as stated: without a terminal operation on a pipeline over a non-empty
\* source, no goroutine ever terminates and no channel is ever closed.
C13_NothingEverTerminates ==
    NoConsumer =>
        /\ srcPc # "done"
        /\ \A i \in 1..NStages : \A w \in Workers(i) : pc[i][w] # "done"
        /\ \A i \in 1..NStages : coord[i] # "done"
        /\ \A c \in Channels : ~Closed(c)

\* C13 amended: without a terminal operation, on a pipeline whose Parallel stages
\* have K >= 1 workers and whose source has more elements than the pipeline has
\* stage goroutines, no goroutine terminates and no channel is closed as long as
\* no stage has discarded an element; and a goroutine blocked on its send stays
\* blocked forever once every stage downstream of it is blocked (the last
\* stage's goroutine from the moment it holds an element).
C13_BlockedWithoutConsumer ==
    /\ [](( /\ NoConsumer
            /\ \A i \in 1..NStages : Workers(i) # {}
            /\ Len(src) > StageGoroutines(NStages)
            /\ NoneDiscarded ) => NothingTerminated)
    /\ [][NoConsumer => StaysBlocked]_vars

\* Parallel(2) over three elements without a terminal: both workers hold an
\* element and are blocked on their send, the source is blocked on its third.
C13_Witness ==
    /\ NoConsumer
    /\ NStages = 1
    /\ chain[1].op = "Parallel"
    /\ chain[1].n = 2
    /\ Len(src) = 3
    /\ pc[1][1] = "send"
    /\ pc[1][2] = "send"
    /\ srcIdx = 3
    /\ NothingTerminated

RECURSIVE DiscardedUpTo(_)
\* the number of elements 1..k a stage has discarded
DiscardedUpTo(k) == IF k = 0 THEN 0 ELSE DiscardedUpTo(k - 1) + dropped[k]

\* elements the source has sent that were neither received by the terminal
\* consumer nor discarded by a Filter
InFlight == (srcIdx - 1) - (Len(recvd) + DiscardedUpTo(Len(src)))

\* C14: backpressure bound.  In a pipeline of a source and m single-worker Filter
\* or Map stages, the elements sent by the source and neither received by the
\* terminal consumer nor discarded by a Filter are at most m, each stage
\* goroutine holding at most one of them.
C14_Backpressure ==
    OnlyStages({"Filter", "Map"}) =>
        /\ InFlight <= NStages
        /\ InFlight = Cardinality(HeldAt)
        /\ \A i \in 1..NStages : Len(hold[i][1]) <= 1

\* Map then Filter: both stage goroutines hold an element, so the source is two
\* elements ahead of the consumer.
C14_Witness ==
    /\ OnlyStages({"Filter", "Map"})
    /\ NStages = 2
    /\ chain[1].op = "Map"
    /\ chain[2].op = "Filter"
    /\ InFlight = 2
    /\ Len(recvd) = 0

\* the values Collect has received that stem from source element id, in order
OutputsOf(id) == ValsOf(SelectSeq(recvd, LAMBDA x : x.id = id))

\* C15: NewStream(S).FlatMap(E).Collect() returns E(S[0]) ++ ... ++ E(S[len-1]);
\* the outputs of one input element are forwarded in E's order before any output
\* of the next, and an element with an empty expansion contributes nothing.
C15_FlatMapCollect ==
    OneStage("FlatMap", "Collect") =>
        /\ \A k \in 1..(Len(recvd) - 1) : recvd[k].id <= recvd[k + 1].id
        /\ \A id \in 1..Len(src) :
              /\ IsPrefix(OutputsOf(id), ApplyExpand(chain[1].f, src[id]))
              /\ (Returned \/ \E k \in 1..Len(recvd) : recvd[k].id > id) =>
                     OutputsOf(id) = ApplyExpand(chain[1].f, src[id])
        /\ Returned => Collected = ConcatExpand(chain[1].f, src)

\* FlatMap(evenTwice) over [2, 1, 2] has returned [2, 2, 2, 2]: the odd element
\* contributed nothing.
C15_Witness ==
    /\ OneStage("FlatMap", "Collect")
    /\ chain[1].f = "evenTwice"
    /\ src = <<2, 1, 2>>
    /\ Returned
    /\ Collected = <<2, 2, 2, 2>>
    /\ OutputsOf(2) = << >>

\* the wrapper is New(src) followed by Pop and Shift calls only
PopShiftOnly ==
    /\ pkg = "compress"
    /\ \A k \in 1..Len(calls) : calls[k].op \in {"Pop", "Shift"}

\* this step is a call of op
Calls(op) == Len(calls') = Len(calls) + 1 /\ calls'[Len(calls')].op = op

\* Pop returned the last element and removed it (zero value on empty data)
PopEffect ==
    IF data = << >>
    THEN ret' = Zero /\ data' = << >> /\ ~panicked'
    ELSE /\ ret' = data[Len(data)]
         /\ Len(data') = Len(data) - 1
         /\ \A k \in 1..Len(data') : data'[k] = data[k]

\* Shift returned the first element and removed it (zero value on empty data)
ShiftEffect ==
    IF data = << >>
    THEN ret' = Zero /\ data' = << >> /\ ~panicked'
    ELSE /\ ret' = data[1]
         /\ Len(data') = Len(data) - 1
         /\ \A k \in 1..Len(data') : data'[k] = data[k + 1]

\* C16: after any sequence of Pop and Shift calls on New(S) the data is a
\* contiguous sub-sequence of S; a call on non-empty data returns the removed
\* element (Pop the last, Shift the first) and shortens the data by exactly one,
\* the others unchanged; on empty data it returns the zero value, does not fail
\* and leaves the data empty.
C16_PopShift ==
    /\ [](PopShiftOnly =>
            /\ ~panicked
            /\ \E a \in 1..(Len(src) + 1), b \in 0..Len(src) : data = SubSeq(src, a, b)
            /\ Len(data) = IF Len(calls) >= Len(src) THEN 0 ELSE Len(src) - Len(calls))
    /\ [][(PopShiftOnly /\ Calls("Pop")) => PopEffect]_vars
    /\ [][(PopShiftOnly /\ Calls("Shift")) => ShiftEffect]_vars

\* Shift, Pop, Shift on [1, 2, 1] emptied the data; the fourth call, a Pop on the
\* empty data, returned the zero value.
C16_Witness ==
    /\ PopShiftOnly
    /\ src = <<1, 2, 1>>
    /\ Len(calls) = 4
    /\ calls[1].op = "Shift"
    /\ calls[2].op = "Pop"
    /\ calls[3].op = "Shift"
    /\ calls[4].op = "Pop"
    /\ data = << >>
    /\ ret = Zero

\* C17: New(S).Limit(n).Collect() returns what NewStream(S).Limit(n).Collect()
\* returns: the first min(n, len(S)) elements of S in order for n >= 0, the empty
\* sequence for n <= 0, and nothing else.
C17_WrapperLimitAgrees ==
    OneCall("Limit") => data = FirstN(src, calls[1].n)

\* C18: New(S).FlatMap(E).Collect() returns what NewStream(S).FlatMap(E).Collect()
\* returns: the concatenation of E(S[i]) in input order, the original elements
\* of S replaced by their expansions.
C18_WrapperFlatMapAgrees ==
    OneCall("FlatMap") => data = ConcatExpand(calls[1].f, src)

\* the pipeline is NewStream(src).Parallel(0).Collect()
ParallelZero == OneStage("Parallel", "Collect") /\ chain[1].n = 0

\* C19: with Parallel(0) no worker is started and the coordinator closes the
\* output without any element forwarded: NewStream(S).Parallel(0).Collect()
\* returns the empty sequence for every S, and for a non-empty S the source
\* producer stays blocked forever on its first send.
C19_ParallelZero ==
    /\ [](ParallelZero =>
            /\ recvd = << >>
            /\ Workers(1) = {}
            /\ Closed(1) => closedBy[1] = <<Closer(1, "coord")>>
            /\ src # << >> => (srcPc = "send" /\ srcIdx = 1 /\ ~Closed(0)))
    /\ ParallelZero ~> (Returned /\ Collected = << >>)

\* Parallel(0) over [1, 2]: Collect has returned the empty sequence and the
\* source is still blocked on its first send.
C19_Witness ==
    /\ ParallelZero
    /\ src = <<1, 2>>
    /\ Returned
    /\ Collected = << >>
    /\ srcPc = "send"
    /\ srcIdx = 1
    /\ coord[1] = "done"

====
